---- MODULE Spec2Model ----
(***************************************************************************)
(* A model of dicompylercore/dvh.py: the DVH value object, its view and    *)
(* unit transforms, its constraint queries and the metric-name resolver.   *)
(*                                                                         *)
(* Numbers are exact rationals [n, d] (d > 0), which stand for numpy's     *)
(* floats with the tolerance of np.allclose abstracted to equality; the    *)
(* non-finite floats are kept: [0,0] is nan, [1,0] is inf, [-1,0] is -inf. *)
(***************************************************************************)
EXTENDS Integers, Sequences, FiniteSets, TLC

\* self:  the DVH the caller holds (NoObject before a construction succeeds)
\* op:    the last call made, with its arguments
\* ret:   what that call returned or raised
\* steps: how many times the caller has gone on with a returned DVH
\* made:  the constructor that made the DVH the caller started from
VARIABLES self, ret, op, steps, made

vars == <<self, ret, op, steps, made>>

----------------------------------------------------------------------------
(* Bounds of the model *)

\* longest counts array a DVH is constructed with
MaxLen == 3
\* longest chain of transforms the caller follows from a constructed DVH
MaxChain == 1
\* longest metric name handed to __getattr__
MaxName == 4

----------------------------------------------------------------------------
(* Floating-point numbers as rationals *)

AbsI(i) == IF i < 0 THEN -i ELSE i

SignI(i) == IF i < 0 THEN -1 ELSE IF i > 0 THEN 1 ELSE 0

RECURSIVE GCD(_, _)
GCD(a, b) == IF b = 0 THEN a ELSE GCD(b, a % b)

\* the float n/d: reduced, the sign on the numerator; x/0 is inf, -inf or nan
Norm(n, d) ==
    IF d = 0 THEN [n |-> SignI(n), d |-> 0]
    ELSE LET g == GCD(AbsI(n), AbsI(d))
             s == IF d < 0 THEN -1 ELSE 1
         IN  [n |-> (s * n) \div g, d |-> (s * d) \div g]

Num(i) == [n |-> i, d |-> 1]

NaN == [n |-> 0, d |-> 0]

IsNaN(a) == a.d = 0 /\ a.n = 0

Mul(a, b) == Norm(a.n * b.n, a.d * b.d)

Div(a, b) == Norm(a.n * b.d, a.d * b.n)

Add(a, b) ==
    IF a.d = 0 /\ b.d = 0
    THEN (IF a.n = b.n THEN a ELSE NaN)
    ELSE Norm(a.n * b.d + b.n * a.d, a.d * b.d)

Neg(a) == [n |-> -a.n, d |-> a.d]

Sub(a, b) == Add(a, Neg(b))

Fabs(a) == [n |-> AbsI(a.n), d |-> a.d]

\* a < b as IEEE compares: false when either side is nan
Lt(a, b) ==
    /\ ~IsNaN(a)
    /\ ~IsNaN(b)
    /\ IF a.d = 0 /\ b.d = 0 THEN a.n < b.n ELSE a.n * b.d < b.n * a.d

\* a == b as IEEE compares: nan equals nothing
EqNum(a, b) == ~IsNaN(a) /\ ~IsNaN(b) /\ a = b

Le(a, b) == Lt(a, b) \/ EqNum(a, b)

Gt(a, b) == Lt(b, a)

Ge(a, b) == Le(b, a)

----------------------------------------------------------------------------
(* numpy array operations on sequences of numbers *)

Scale(s, k) == [i \in 1..Len(s) |-> Mul(s[i], k)]

ScaleDiv(s, k) == [i \in 1..Len(s) |-> Div(s[i], k)]

\* np.diff
NpDiff(s) == [i \in 1..(Len(s) - 1) |-> Sub(s[i + 1], s[i])]

RECURSIVE SumTo(_, _)
SumTo(s, k) == IF k = 0 THEN Num(0) ELSE Add(SumTo(s, k - 1), s[k])

\* ndarray.sum
NpSum(s) == SumTo(s, Len(s))

Reverse(s) == [i \in 1..Len(s) |-> s[Len(s) + 1 - i]]

\* ndarray.cumsum
NpCumsum(s) == [i \in 1..Len(s) |-> SumTo(s, i)]

\* ndarray.max on a non-empty array: nan if any element is nan
NpMax(s) ==
    IF \E i \in 1..Len(s) : IsNaN(s[i]) THEN NaN
    ELSE LET i == CHOOSE i \in 1..Len(s) : \A j \in 1..Len(s) : Le(s[j], s[i])
         IN  s[i]

\* np.argmax written for np.argmin: the first index of the maximum
NpArgmaxForArgmin(s) ==
    LET maxs == {i \in 1..Len(s) : \A j \in 1..Len(s) : Le(s[j], s[i])}
    IN  (CHOOSE i \in maxs : \A j \in maxs : i <= j) - 1

\* np.argmin on a non-empty array (0-based): the first nan if there is one,
\* else the first index of the minimum
NpArgmin(s) ==
    LET nans == {i \in 1..Len(s) : IsNaN(s[i])}
        mins == {i \in 1..Len(s) : \A j \in 1..Len(s) : Le(s[i], s[j])}
        pick(S) == CHOOSE i \in S : \A j \in S : i <= j
    IN  (IF nans # {} THEN pick(nans) ELSE pick(mins)) - 1

Tail1(s) == SubSeq(s, 2, Len(s))

----------------------------------------------------------------------------
(* Python values *)

\* None where a string is expected (a name, a units argument)
None == "None"

\* None where a number is expected (rx_dose): a record of the numbers' shape
\* that is no number
NoneNum == [n |-> 0, d |-> -1]

\* bool(x) is False for an optional number: None or a zero (nan is truthy)
Falsy(x) == x = NoneNum \/ (x.n = 0 /\ x.d # 0)

\* bool(s) is False for an optional string: None or the empty string
FalsyStr(s) == s = None \/ s = ""

\* str.lower on the unit and type labels
Lower(s) ==
    CASE s = "CUMULATIVE" -> "cumulative"
      [] s = "DIFFERENTIAL" -> "differential"
      [] s = "GY" -> "gy"
      [] s = "Gy" -> "gy"
      [] s = "RELATIVE" -> "relative"
      [] s = "CM3" -> "cm3"
      [] s = "PERCENT" -> "percent"
      [] OTHER -> s

abs_dose_units == "gy"

abs_volume_units == "cm3"

relative_units == "%"

\* what a call returns or raises
Returned(tag, val) == [tag |-> tag, val |-> val]

Raised(exc) == [tag |-> "Error", val |-> exc]

IsDVH(r) == r.tag = "DVH"

IsError(r) == r.tag = "Error"

----------------------------------------------------------------------------
(* class DVH *)

\* DVH.__init__
DVHInit(counts, bins, dvh_type, dose_units, volume_units, rx_dose, name) ==
    [counts       |-> counts,
     bins         |-> IF EqNum(bins[1], Num(0)) THEN bins ELSE <<Num(0)>> \o bins,
     dvh_type     |-> Lower(dvh_type),
     dose_units   |-> Lower(dose_units),
     volume_units |-> Lower(volume_units),
     rx_dose      |-> rx_dose,
     name         |-> name]

\* the new DVH built without the source's rx_dose
WithCountsNoRx(h, counts, dvh_type, volume_units) ==
    DVHInit(counts, h.bins, dvh_type, h.dose_units, volume_units, NoneNum, h.name)

\* DVH(**dict(self.__dict__, counts=..., dvh_type=...))
WithCounts(h, counts, dvh_type, volume_units) ==
    DVHInit(counts, h.bins, dvh_type, h.dose_units, volume_units, h.rx_dose, h.name)

\* DVH(**dict(self.__dict__, bins=..., dose_units=...))
WithBins(h, bins, dose_units) ==
    DVHInit(h.counts, bins, h.dvh_type, dose_units, h.volume_units, h.rx_dose, h.name)

\* DVH.__eq__
DVHEq(a, b) ==
    /\ a.dvh_type = b.dvh_type
    /\ a.dose_units = b.dose_units
    /\ a.volume_units = b.volume_units
    /\ Len(a.counts) = Len(b.counts)
    /\ \A i \in 1..Len(a.counts) : EqNum(a.counts[i], b.counts[i])
    /\ Len(a.bins) = Len(b.bins)
    /\ \A i \in 1..Len(a.bins) : EqNum(a.bins[i], b.bins[i])

\* the sums of adjacent edges, the factor 0.5 left out
bincentersNoHalf(h) ==
    [i \in 1..(Len(h.bins) - 1) |-> Add(h.bins[i + 1], h.bins[i])]

\* DVH.bincenters
bincenters(h) ==
    [i \in 1..(Len(h.bins) - 1) |-> Mul(Norm(1, 2), Add(h.bins[i + 1], h.bins[i]))]

\* the counts of DVH.differential: abs(diff(counts) * -1) with a 0 appended
DiffCounts(counts) ==
    Append([i \in 1..(Len(counts) - 1) |-> Fabs(Mul(NpDiff(counts)[i], Num(-1)))],
           Num(0))

\* DVH.differential
differential(h) ==
    IF h.dvh_type = "differential" THEN h
    ELSE WithCounts(h, DiffCounts(h.counts), "differential", h.volume_units)

\* the counts of DVH.cumulative: counts[::-1].cumsum()[::-1]
CumCounts(counts) == Reverse(NpCumsum(Reverse(counts)))

\* DVH.cumulative
cumulative(h) ==
    IF h.dvh_type = "cumulative" THEN h
    ELSE WithCounts(h, CumCounts(h.counts), "cumulative", h.volume_units)

\* rxdose = rx_dose if self.rx_dose is None else self.rx_dose
RxChoice(h, rx_dose) == IF h.rx_dose = NoneNum THEN rx_dose ELSE h.rx_dose

\* DVH.absolute_dose
absolute_dose(h, rx_dose, dose_units) ==
    IF h.dose_units = dose_units THEN Returned("DVH", h)
    ELSE IF Falsy(h.rx_dose) /\ Falsy(rx_dose) THEN Raised("AttributeError")
    ELSE Returned("DVH",
            WithBins(h, ScaleDiv(Scale(h.bins, RxChoice(h, rx_dose)), Num(100)),
                     dose_units))

\* relative_dose scaling as absolute_dose does
relative_doseScaledUp(h, rx_dose) ==
    IF h.dose_units = relative_units THEN Returned("DVH", h)
    ELSE IF Falsy(h.rx_dose) /\ Falsy(rx_dose) THEN Raised("AttributeError")
    ELSE Returned("DVH",
            WithBins(h, ScaleDiv(Scale(h.bins, RxChoice(h, rx_dose)), Num(100)),
                     relative_units))

\* DVH.relative_dose
relative_dose(h, rx_dose) ==
    IF h.dose_units = relative_units THEN Returned("DVH", h)
    ELSE IF Falsy(h.rx_dose) /\ Falsy(rx_dose) THEN Raised("AttributeError")
    ELSE Returned("DVH",
            WithBins(h, ScaleDiv(Scale(h.bins, Num(100)), RxChoice(h, rx_dose)),
                     relative_units))

\* DVH.absolute_volume
absolute_volume(h, volume, volume_units) ==
    IF h.volume_units = volume_units THEN h
    ELSE WithCounts(h, ScaleDiv(Scale(h.counts, volume), Num(100)),
                    h.dvh_type, volume_units)

\* DVH.relative_volume
RECURSIVE relative_volume(_)
relative_volume(h) ==
    IF h.volume_units = relative_units THEN h
    ELSE IF h.dvh_type = "differential"
         THEN differential(relative_volume(cumulative(h)))
    ELSE WithCounts(h, ScaleDiv(Scale(h.counts, Num(100)), NpMax(h.counts)),
                    h.dvh_type, relative_units)

\* DVHValue.__init__
DVHValue(value, units) == [value |-> value, units |-> units]

\* a[mask][k] for the boolean mask counts > 0 over bins[1:]: IndexError when
\* the mask's length is not the array's, or when nothing is selected
MaskedEdge(h, last) ==
    LET d     == differential(h)
        edges == Tail1(d.bins)
        sel   == {i \in 1..Len(d.counts) : Gt(d.counts[i], Num(0))}
    IN  IF Len(edges) # Len(d.counts) \/ sel = {} THEN Raised("IndexError")
        ELSE LET i == CHOOSE i \in sel :
                          \A j \in sel : IF last THEN j <= i ELSE i <= j
             IN  Returned("number", edges[i])

\* DVH.max
max(h) == MaskedEdge(h, TRUE)

\* DVH.min
min(h) == MaskedEdge(h, FALSE)

\* DVH.mean: the arrays multiply elementwise, a length-1 array broadcasting
mean(h) ==
    LET d == differential(h)
        c == bincenters(d)
        n == IF Len(c) = 1 THEN Len(d.counts) ELSE Len(c)
        at(s, i) == IF Len(s) = 1 THEN s[1] ELSE s[i]
    IN  IF Len(c) # Len(d.counts) /\ Len(c) # 1 /\ Len(d.counts) # 1
        THEN Raised("ValueError")
        ELSE Returned("number",
                Div(NpSum([i \in 1..n |-> Mul(at(c, i), at(d.counts, i))]),
                    NpSum(d.counts)))

\* DVH.volume
volume(h) == NpSum(differential(h).counts)

\* the prescription dose and the volume the constraint lookups pass along
LookupRx == 14

\* DVH.volume_constraint
volume_constraint(h, dose, dose_units) ==
    LET conv == IF FalsyStr(dose_units) THEN relative_dose(h, Num(LookupRx))
                ELSE absolute_dose(h, Num(LookupRx), abs_dose_units)
    IN  IF IsError(conv) THEN conv
        ELSE LET dose_bins == conv.val.bins
                 index == NpArgmin([i \in 1..Len(dose_bins) |->
                                        Fabs(Sub(dose_bins[i], dose))])
             IN  IF index >= Len(h.counts)
                 THEN Returned("DVHValue", DVHValue(Num(0), h.volume_units))
                 ELSE Returned("DVHValue",
                               DVHValue(h.counts[index + 1], h.volume_units))

\* DVH.dose_constraint
dose_constraint(h, vol, volume_units) ==
    LET volume_counts ==
            IF FalsyStr(volume_units) THEN relative_volume(h).counts
            ELSE absolute_volume(h, Num(LookupRx), abs_volume_units).counts
        index == NpArgmin([i \in 1..Len(volume_counts) |->
                               Fabs(Sub(volume_counts[i], vol))])
    IN  IF Gt(vol, NpMax(volume_counts))
        THEN Returned("DVHValue", DVHValue(Num(0), h.dose_units))
        ELSE Returned("DVHValue", DVHValue(h.bins[index + 1], h.dose_units))

----------------------------------------------------------------------------
(* DVH.__getattr__: names are sequences of characters *)

IsSpaceCh(ch) == ch = " "

IsDigitCh(ch) == ch \in {"0", "1", "2", "3", "4", "5", "6", "7", "8", "9"}

\* str.lower, one character
LowerCh(ch) ==
    CASE ch = "D" -> "d"
      [] ch = "V" -> "v"
      [] ch = "G" -> "g"
      [] ch = "Y" -> "y"
      [] ch = "C" -> "c"
      [] ch = "X" -> "x"
      [] OTHER -> ch

LowerStr(s) == [i \in 1..Len(s) |-> LowerCh(s[i])]

DigitVal(ch) ==
    CASE ch = "0" -> 0 [] ch = "1" -> 1 [] ch = "2" -> 2 [] ch = "3" -> 3
      [] ch = "4" -> 4 [] ch = "5" -> 5 [] ch = "6" -> 6 [] ch = "7" -> 7
      [] ch = "8" -> 8 [] ch = "9" -> 9

RECURSIVE DigitsVal(_)
DigitsVal(s) ==
    IF Len(s) = 0 THEN 0
    ELSE 10 * DigitsVal(SubSeq(s, 1, Len(s) - 1)) + DigitVal(s[Len(s)])

\* int(s) for a string of digits and dots: ValueError unless all are digits
PyInt(s) ==
    IF Len(s) > 0 /\ \A i \in 1..Len(s) : IsDigitCh(s[i])
    THEN Returned("number", Num(DigitsVal(s)))
    ELSE Raised("ValueError")

\* the ways (D|V){1}(\d+[.]?\d*)(gy|cc)?(?!\S+) matches from position p on:
\* a digits, a dot or none, b more digits, a suffix of 2 characters or none,
\* and then the end of the name or a space (re.IGNORECASE)
TailMatches(name, p) ==
    {m \in [a : 1..Len(name), dot : {0, 1}, b : 0..Len(name), suf : {0, 2}] :
        LET e == p + m.a + m.dot + m.b + m.suf
        IN  /\ e <= Len(name)
            /\ LowerCh(name[p]) \in {"d", "v"}
            /\ \A i \in (p + 1)..(p + m.a) : IsDigitCh(name[i])
            /\ m.dot = 1 => name[p + m.a + 1] = "."
            /\ \A i \in (p + m.a + m.dot + 1)..(p + m.a + m.dot + m.b) :
                   IsDigitCh(name[i])
            /\ m.suf = 2 =>
                   LowerStr(SubSeq(name, e - 1, e)) \in {<<"g", "y">>, <<"c", "c">>}
            /\ e < Len(name) => IsSpaceCh(name[e + 1])}

\* the regex engine's order among the matches at one position: each greedy
\* part takes the most it can before a later part is tried
Preferred(m1, m2) ==
    \/ m1.a > m2.a
    \/ m1.a = m2.a /\ m1.dot > m2.dot
    \/ m1.a = m2.a /\ m1.dot = m2.dot /\ m1.b > m2.b
    \/ m1.a = m2.a /\ m1.dot = m2.dot /\ m1.b = m2.b /\ m1.suf >= m2.suf

\* re.match(p, name) for p = (\S+)?(D|V){1}(\d+[.]?\d*)(gy|cc)?(?!\S+):
\* the prefix group is tried longest first and then left out. The result is
\* no match, or the groups: whether the prefix took part, the kind letter,
\* the number and the suffix (None when absent).
ReMatch(name) ==
    LET starts == {p \in 1..Len(name) :
                      /\ TailMatches(name, p) # {}
                      /\ \A i \in 1..(p - 1) : ~IsSpaceCh(name[i])}
    IN  IF starts = {} THEN [matched |-> FALSE]
        ELSE LET p == IF starts = {1} THEN 1
                      ELSE CHOOSE q \in starts \ {1} :
                               \A r \in starts \ {1} : r <= q
                 m == CHOOSE m1 \in TailMatches(name, p) :
                          \A m2 \in TailMatches(name, p) : Preferred(m1, m2)
                 n == p + m.a + m.dot + m.b
             IN  [matched |-> TRUE,
                  prefix  |-> p > 1,
                  kind    |-> <<name[p]>>,
                  number  |-> SubSeq(name, p + 1, n),
                  suffix  |-> IF m.suf = 2 THEN SubSeq(name, n + 1, n + 2)
                              ELSE <<>>]

\* the units argument a suffix stands for
SuffixStr(s) ==
    IF s = <<"g", "y">> THEN "gy" ELSE IF s = <<"c", "c">> THEN "cc" ELSE None

\* DVH.__getattr__
getattr(h, name) ==
    LET match == ReMatch(name)
    IN  IF ~match.matched \/ match.prefix THEN Raised("AttributeError")
        ELSE LET c0 == LowerStr(match.kind)
                 c1 == PyInt(LowerStr(match.number))
                 c2 == SuffixStr(LowerStr(match.suffix))
             IN  IF IsError(c1) THEN c1
                 ELSE IF c0 = <<"v">> THEN volume_constraint(h, c1.val, c2)
                 ELSE dose_constraint(h, c1.val, c2)

----------------------------------------------------------------------------
(* Constructors *)

\* np.arange(0, stop, step) for a positive step: 0, step, 2*step, ... < stop
NpArange(stop, step) ==
    LET q == Div(stop, step)
        n == IF Le(q, Num(0)) THEN 0 ELSE (q.n + q.d - 1) \div q.d
    IN  [k \in 1..n |-> Mul(Num(k - 1), step)]

\* how many samples lie below x (side = "left") or at or below it ("right")
CountBelow(data, x, side) ==
    Cardinality({i \in 1..Len(data) :
                    IF side = "left" THEN Lt(data[i], x) ELSE Le(data[i], x)})

\* np.histogram(data, bins) for explicit edges: ValueError unless the edges
\* never decrease; every bin is half-open but the last, which is closed
NpHistogram(data, bins) ==
    IF \E i \in 1..(Len(bins) - 1) : Gt(bins[i], bins[i + 1])
    THEN Raised("ValueError")
    ELSE LET nb == Len(bins) - 1
             cum == [i \in 1..(nb + 1) |->
                        CountBelow(data, bins[i],
                                   IF i = nb + 1 THEN "right" ELSE "left")]
         IN  Returned("counts", [i \in 1..nb |-> Num(cum[i + 1] - cum[i])])

\* DVH.from_data
from_data(data, binsize) ==
    LET dmax  == NpMax(data)
        b0    == NpArange(Add(dmax, Num(1)), binsize)
        b1    == IF Len(b0) = 1 THEN <<Num(0), dmax>> ELSE b0
        bins  == IF \E i \in 1..Len(b1) : EqNum(b1[i], dmax)
                 THEN b1 ELSE Append(b1, dmax)
        hist  == NpHistogram(data, bins)
    IN  IF IsError(hist) THEN hist
        ELSE Returned("DVH",
                DVHInit(hist.val, bins, "cumulative", abs_dose_units,
                        abs_volume_units, NoneNum, None))

\* data[0::2] and data[1::2]
EvenItems(data) == [i \in 1..((Len(data) + 1) \div 2) |-> data[2 * i - 1]]

OddItems(data) == [i \in 1..(Len(data) \div 2) |-> data[2 * i]]

\* the loop of from_dicom_dvh: the 0-based index of the first item of
\* DVHSequence that references roi_num, or -1. An item's ReferencedROINumber
\* is None when it has no DVHReferencedROISequence or no number in it.
FindSequenceNum(dataset, roi_num) ==
    LET hits == {i \in 1..Len(dataset) : dataset[i].ReferencedROINumber = roi_num}
    IN  IF hits = {} THEN -1
        ELSE (CHOOSE i \in hits : \A j \in hits : i <= j) - 1

\* DVH.from_dicom_dvh
from_dicom_dvh(dataset, roi_num, rx_dose, name) ==
    LET sequence_num == FindSequenceNum(dataset, roi_num)
        dvh  == dataset[sequence_num + 1]
        data == dvh.DVHData
    IN  IF sequence_num = -1 THEN Raised("AttributeError")
        ELSE IF Len(data) = 0 THEN Raised("IndexError")
        ELSE Returned("DVH",
                DVHInit(Scale(OddItems(data), dvh.DVHDoseScaling),
                        NpCumsum(EvenItems(data)),
                        dvh.DVHType, dvh.DoseUnits, dvh.DVHVolumeUnits,
                        NoneNum, name))

----------------------------------------------------------------------------
(* The inputs the calls are made with *)

SeqsUpTo(S, n) == UNION {[1..k -> S] : k \in 1..n}

CountVals == {Num(0), Num(1), Num(2)}

\* N+1 edges from 0, or the N upper edges alone (DVH.__init__ adds the 0)
EdgeChoices(N) == {[i \in 1..(N + 1) |-> Num(i - 1)], [i \in 1..N |-> Num(i)]}

TypeVals == {"cumulative", "differential"}

DoseUnitVals == {abs_dose_units, relative_units}

VolumeUnitVals == {abs_volume_units, relative_units}

RxVals == {NoneNum, Num(0), Num(50)}

\* the rx_dose arguments of the conversions
RxArgs == RxVals \cup {Num(20)}

SampleVals == {Num(0), Num(1), Num(3), Norm(5, 2)}

BinSizes == {Num(1), Num(2)}

\* the items of a DVHSequence: dose steps and volumes interleaved
\* (the first step 0 or 1, the later steps 1), or nothing at all
DicomData ==
    UNION {{[i \in 1..(2 * k) |->
                IF i % 2 = 1 THEN (IF i = 1 THEN first ELSE Num(1))
                ELSE vols[i \div 2]] :
              first \in {Num(0), Num(1)}, vols \in [1..k -> CountVals]} :
           k \in 1..(MaxLen - 1)} \cup {<<>>}

DicomLabels ==
    {[DVHType |-> "CUMULATIVE", DoseUnits |-> "GY", DVHVolumeUnits |-> "CM3"],
     [DVHType |-> "DIFFERENTIAL", DoseUnits |-> "RELATIVE",
      DVHVolumeUnits |-> "PERCENT"]}

RoiNums == {Num(1), Num(2)}

DicomItems ==
    {[ReferencedROINumber |-> r, DVHData |-> d, DVHDoseScaling |-> Num(2),
      DVHType |-> l.DVHType, DoseUnits |-> l.DoseUnits,
      DVHVolumeUnits |-> l.DVHVolumeUnits] :
        r \in RoiNums \cup {NoneNum}, d \in DicomData, l \in DicomLabels}

QueryDoses == {Num(0), Num(1), Num(2), Num(5), Num(100)}

QueryVolumes == {Num(0), Num(1), Num(50), Num(150)}

NoObject == DVHInit(<<>>, <<Num(0)>>, "", "", "", NoneNum, None)

\* a call: the method's name, its numeric argument, its string argument
Call(name, num, str) == [name |-> name, num |-> num, str |-> str]

----------------------------------------------------------------------------
(* The caller: constructs a DVH, calls its methods, goes on with a result *)

Init ==
    /\ self = NoObject
    /\ ret = Returned("None", None)
    /\ op = Call("", NoneNum, None)
    /\ steps = 0
    /\ made = ""

\* a constructor ran: the caller holds the DVH unless it raised
Constructed(r, call) ==
    /\ self' = IF IsDVH(r) THEN r.val ELSE self
    /\ ret' = r
    /\ op' = call
    /\ made' = IF IsDVH(r) THEN call.name ELSE made
    /\ UNCHANGED steps

\* a method of self ran
Called(r, call) ==
    /\ ret' = r
    /\ op' = call
    /\ UNCHANGED <<self, steps, made>>

New ==
    /\ self = NoObject
    /\ \E N \in 1..MaxLen, dvh_type \in TypeVals, dose_units \in DoseUnitVals,
          volume_units \in VolumeUnitVals, rx_dose \in RxVals :
         \E counts \in [1..N -> CountVals], bins \in EdgeChoices(N) :
           Constructed(Returned("DVH", DVHInit(counts, bins, dvh_type, dose_units,
                                               volume_units, rx_dose, "PTV")),
                       Call("DVH", rx_dose, None))

FromData ==
    /\ self = NoObject
    /\ \E data \in SeqsUpTo(SampleVals, MaxLen), binsize \in BinSizes :
           Constructed(from_data(data, binsize), Call("from_data", binsize, None))

FromDicomDvh ==
    /\ self = NoObject
    /\ \E dataset \in SeqsUpTo(DicomItems, 2), roi_num \in RoiNums :
           Constructed(from_dicom_dvh(dataset, roi_num, NoneNum, "ROI"),
                       Call("from_dicom_dvh", roi_num, None))

\* self is a DVH and the caller is not holding a result
Ready == self # NoObject /\ ret.tag = "None"

Differential ==
    /\ Ready
    /\ Called(Returned("DVH", differential(self)),
              Call("differential", NoneNum, None))

Cumulative ==
    /\ Ready
    /\ Called(Returned("DVH", cumulative(self)), Call("cumulative", NoneNum, None))

AbsoluteDose ==
    /\ Ready
    /\ \E rx_dose \in RxArgs :
           Called(absolute_dose(self, rx_dose, abs_dose_units),
                  Call("absolute_dose", rx_dose, abs_dose_units))

RelativeDose ==
    /\ Ready
    /\ \E rx_dose \in RxArgs :
           Called(relative_dose(self, rx_dose),
                  Call("relative_dose", rx_dose, None))

AbsoluteVolume ==
    /\ Ready
    /\ \E v \in {Num(10)} :
           Called(Returned("DVH", absolute_volume(self, v, abs_volume_units)),
                  Call("absolute_volume", v, abs_volume_units))

RelativeVolume ==
    /\ Ready
    /\ Called(Returned("DVH", relative_volume(self)),
              Call("relative_volume", NoneNum, None))

Max == Ready /\ Called(max(self), Call("max", NoneNum, None))

Min == Ready /\ Called(min(self), Call("min", NoneNum, None))

Mean == Ready /\ Called(mean(self), Call("mean", NoneNum, None))

Volume ==
    /\ Ready
    /\ Called(Returned("number", volume(self)), Call("volume", NoneNum, None))

VolumeConstraint ==
    /\ Ready
    /\ \E dose \in QueryDoses, dose_units \in {None, "gy"} :
           Called(volume_constraint(self, dose, dose_units),
                  Call("volume_constraint", dose, dose_units))

DoseConstraint ==
    /\ Ready
    /\ \E vol \in QueryVolumes, volume_units \in {None, "cc"} :
           Called(dose_constraint(self, vol, volume_units),
                  Call("dose_constraint", vol, volume_units))

\* the caller lets go of a construction's or a call's result and keeps self
Drop ==
    /\ self # NoObject
    /\ ret.tag # "None"
    /\ ret' = Returned("None", None)
    /\ op' = Call("", NoneNum, None)
    /\ UNCHANGED <<self, steps, made>>

\* the caller goes on with the DVH a transform returned
GoOn ==
    /\ IsDVH(ret)
    /\ ret.val # self
    /\ op.name \in {"differential", "cumulative", "absolute_dose",
                    "relative_dose", "absolute_volume", "relative_volume"}
    /\ steps < MaxChain
    /\ self' = ret.val
    /\ ret' = Returned("None", None)
    /\ op' = Call("", NoneNum, None)
    /\ steps' = steps + 1
    /\ UNCHANGED made

\* the characters names are made of
NameChars == {"D", "v", "2", ".", "g", "Y", "c", "x", " "}

Names == SeqsUpTo(NameChars, MaxName)

GetAttr ==
    /\ Ready
    /\ \E name \in Names :
           /\ ret' = getattr(self, name)
           /\ op' = Call("__getattr__", NoneNum, name)
           /\ UNCHANGED <<self, steps, made>>

Next ==
    \/ New
    \/ FromData
    \/ FromDicomDvh
    \/ Differential
    \/ Cumulative
    \/ AbsoluteDose
    \/ RelativeDose
    \/ AbsoluteVolume
    \/ RelativeVolume
    \/ Max
    \/ Min
    \/ Mean
    \/ Volume
    \/ VolumeConstraint
    \/ DoseConstraint
    \/ Drop
    \/ GoOn

Spec == Init /\ [][Next]_vars

\* the DVHs the names are resolved on: the cumulative histogram
\* [10, 8, 5, 2, 0] over [0..5] in gy and cm3, and a differential one in % and %
NamedDVHs ==
    {DVHInit(<<Num(10), Num(8), Num(5), Num(2), Num(0)>>,
             [i \in 1..6 |-> Num(i - 1)], "cumulative", abs_dose_units,
             abs_volume_units, NoneNum, "PTV"),
     DVHInit(<<Num(50), Num(30), Num(20)>>,
             [i \in 1..4 |-> Num(50 * (i - 1))], "differential", relative_units,
             relative_units, Num(50), "PTV")}

InitName ==
    /\ self \in NamedDVHs
    /\ ret = Returned("None", None)
    /\ op = Call("", NoneNum, None)
    /\ steps = 0
    /\ made = "DVH"

NextName ==
    \/ GetAttr
    \/ Drop

SpecName == InitName /\ [][NextName]_vars

----------------------------------------------------------------------------
(* The properties *)

SameNums(a, b) == Len(a) = Len(b) /\ \A i \in 1..Len(a) : EqNum(a[i], b[i])

Positive(x) == x # NoneNum /\ Gt(x, Num(0))

\* N counts over N+1 bin edges
Shaped(h) == Len(h.bins) = Len(h.counts) + 1

\* the last call was method `name` of self and it returned a DVH
ReturnedDVH(name) == op.name = name /\ IsDVH(ret)

\* C1: for every cumulative DVH H of N counts over N+1 bin edges,
\* H.differential.cumulative equals H (counts, bins, dvh_type and units).
C1_ViewRoundTrip ==
    (ReturnedDVH("differential") /\ self.dvh_type = "cumulative" /\ Shaped(self))
        => DVHEq(cumulative(ret.val), self)

\* C2: for every cumulative DVH H the counts of H.differential sum to
\* H.counts[0], and H.volume equals H.counts[0].
C2_VolumePreserved ==
    (self.dvh_type = "cumulative" /\ Shaped(self))
        => /\ ReturnedDVH("differential")
                => EqNum(NpSum(ret.val.counts), self.counts[1])
           /\ op.name = "volume" => EqNum(ret.val, self.counts[1])

\* C3 as stated: for every DVH H and every positive rx,
\* H.absolute_dose(rx).relative_dose(rx) has the bin edges of H.
C3_DoseRoundTripAny ==
    (ReturnedDVH("absolute_dose") /\ Positive(op.num))
        => LET back == relative_dose(ret.val, op.num)
           IN  IsDVH(back) /\ SameNums(back.val.bins, self.bins)

\* C3 as amended: for every DVH H whose dose_units are not already the
\* absolute units 'gy' and whose own rx_dose is None or positive, and every
\* positive rx, H.absolute_dose(rx).relative_dose(rx) has the bin edges of H.
C3_DoseRoundTrip ==
    (/\ ReturnedDVH("absolute_dose")
     /\ Positive(op.num)
     /\ self.dose_units # abs_dose_units
     /\ (self.rx_dose = NoneNum \/ Positive(self.rx_dose)))
        => LET back == relative_dose(ret.val, op.num)
           IN  IsDVH(back) /\ SameNums(back.val.bins, self.bins)

\* a relative DVH with no prescription dose of its own was converted with
\* rx = 50, which moved its bin edges, and converting back restores them
C3_Witness ==
    /\ ReturnedDVH("absolute_dose")
    /\ op.num = Num(50)
    /\ self.dose_units = relative_units
    /\ self.rx_dose = NoneNum
    /\ Len(self.bins) = 3
    /\ ~SameNums(ret.val.bins, self.bins)
    /\ SameNums(relative_dose(ret.val, op.num).val.bins, self.bins)

\* C4: absolute_dose and relative_dose raise if and only if the units differ
\* from the target and no prescription dose is present on the instance or in
\* the argument; when the units match they return self; when one is present
\* they return a DVH whose bins are scaled by that prescription dose.
C4_MissingPrescription ==
    op.name \in {"absolute_dose", "relative_dose"} =>
        LET target == IF op.name = "absolute_dose" THEN op.str ELSE relative_units
            needed == self.dose_units # target
            present == {x \in {self.rx_dose, op.num} : ~Falsy(x)}
            rx == IF ~Falsy(self.rx_dose) THEN self.rx_dose ELSE op.num
            scaled == IF op.name = "absolute_dose"
                      THEN ScaleDiv(Scale(self.bins, rx), Num(100))
                      ELSE ScaleDiv(Scale(self.bins, Num(100)), rx)
        IN  /\ IsError(ret) <=> (needed /\ present = {})
            /\ IsError(ret) => ret.val = "AttributeError"
            /\ ~needed => (IsDVH(ret) /\ ret.val = self)
            /\ (needed /\ present # {}) =>
                   (IsDVH(ret) /\ SameNums(ret.val.bins, scaled))

----------------------------------------------------------------------------
(* Metric names *)

\* the grammar of a metric name: a kind letter, digits with an optional
\* decimal part, an optional gy or cc, and nothing else
IsDigits(s) == Len(s) > 0 /\ \A i \in 1..Len(s) : IsDigitCh(s[i])

MetricParts(name) ==
    {m \in [int : 1..Len(name), frac : 0..Len(name), suf : {0, 2}] :
        /\ 1 + m.int + (IF m.frac > 0 THEN 1 + m.frac ELSE 0) + m.suf = Len(name)
        /\ LowerCh(name[1]) \in {"d", "v"}
        /\ IsDigits(SubSeq(name, 2, 1 + m.int))
        /\ m.frac > 0 =>
              /\ name[2 + m.int] = "."
              /\ IsDigits(SubSeq(name, 3 + m.int, 2 + m.int + m.frac))
        /\ m.suf = 2 =>
              LowerStr(SubSeq(name, Len(name) - 1, Len(name)))
                  \in {<<"g", "y">>, <<"c", "c">>}}

RECURSIVE Pow10(_)
Pow10(k) == IF k = 0 THEN 1 ELSE 10 * Pow10(k - 1)

\* the number a metric name's threshold denotes
Threshold(name, m) ==
    IF m.frac = 0 THEN Num(DigitsVal(SubSeq(name, 2, 1 + m.int)))
    ELSE Add(Num(DigitsVal(SubSeq(name, 2, 1 + m.int))),
             Norm(DigitsVal(SubSeq(name, 3 + m.int, 2 + m.int + m.frac)),
                  Pow10(m.frac)))

\* C5: a name made of a kind letter D or V (any case), a numeric threshold
\* (integer or decimal), an optional suffix gy or cc (any case) and nothing
\* else resolves to dose_constraint (D) or volume_constraint (V) called with
\* that threshold and that suffix; every other name raises AttributeError
\* (UnknownStatisticName) and no other error.
C5_NameResolution ==
    op.name = "__getattr__" =>
        LET name == op.str
            parts == MetricParts(name)
        IN  IF parts = {} THEN IsError(ret) /\ ret.val = "AttributeError"
            ELSE LET m == CHOOSE x \in parts : TRUE
                     units == IF m.suf = 0 THEN None
                              ELSE SuffixStr(LowerStr(SubSeq(name, Len(name) - 1,
                                                             Len(name))))
                     want == IF LowerCh(name[1]) = "v"
                             THEN volume_constraint(self, Threshold(name, m), units)
                             ELSE dose_constraint(self, Threshold(name, m), units)
                 IN  ret.tag = want.tag /\ ret.val = want.val

\* C5, the integer names alone: a kind letter, digits and an optional suffix
\* resolve to the constraint call with that threshold and suffix
C5_IntegerNames ==
    op.name = "__getattr__" =>
        \A m \in MetricParts(op.str) :
            m.frac = 0 =>
                LET name == op.str
                    units == IF m.suf = 0 THEN None
                             ELSE SuffixStr(LowerStr(SubSeq(name, Len(name) - 1,
                                                            Len(name))))
                    want == IF LowerCh(name[1]) = "v"
                            THEN volume_constraint(self, Threshold(name, m), units)
                            ELSE dose_constraint(self, Threshold(name, m), units)
                IN  ret.tag = want.tag /\ ret.val = want.val

----------------------------------------------------------------------------
(* Constraint queries *)

\* counts never rise and none is negative, as a cumulative histogram's are
NonIncreasing(counts) ==
    /\ \A i \in 1..Len(counts) : Ge(counts[i], Num(0))
    /\ \A i \in 1..(Len(counts) - 1) : Ge(counts[i], counts[i + 1])

\* bin edges that never fall
Ascending(bins) == \A i \in 1..(Len(bins) - 1) : Le(bins[i], bins[i + 1])

\* the volume a second volume_constraint call on self returns
VolumeAt(dose, dose_units) == volume_constraint(self, dose, dose_units).val.value

\* C6 as stated: for every DVH whose dvh_type is cumulative and doses
\* d1 <= d2, volume_constraint(d1) >= volume_constraint(d2).
C6_MonotoneAnyCounts ==
    (op.name = "volume_constraint" /\ self.dvh_type = "cumulative") =>
        \A d2 \in QueryDoses :
            Le(op.num, d2) => Ge(ret.val.value, VolumeAt(d2, op.str))

\* C6 as amended: for every DVH whose dvh_type is cumulative, whose counts
\* are non-negative and non-increasing and whose bin edges are ascending, and
\* doses d1 <= d2, volume_constraint(d1) >= volume_constraint(d2).
C6_Monotone ==
    (/\ op.name = "volume_constraint"
     /\ self.dvh_type = "cumulative"
     /\ NonIncreasing(self.counts)
     /\ Ascending(self.bins)) =>
        \A d2 \in QueryDoses :
            Le(op.num, d2) => Ge(ret.val.value, VolumeAt(d2, op.str))

\* a cumulative DVH with falling counts was asked for the volume at dose 1 and
\* a larger dose gets a strictly smaller, still positive, volume
C6_Witness ==
    /\ op.name = "volume_constraint"
    /\ self.dvh_type = "cumulative"
    /\ NonIncreasing(self.counts)
    /\ Ascending(self.bins)
    /\ op.num = Num(1)
    /\ \E d2 \in QueryDoses :
          /\ Lt(op.num, d2)
          /\ Lt(VolumeAt(d2, op.str), ret.val.value)
          /\ Gt(VolumeAt(d2, op.str), Num(0))

\* the bin edges and the counts a constraint query looks its argument up in
LookupBins(h, dose_units) ==
    IF FalsyStr(dose_units) THEN relative_dose(h, Num(LookupRx)).val.bins
    ELSE absolute_dose(h, Num(LookupRx), abs_dose_units).val.bins

LookupCounts(h, volume_units) ==
    IF FalsyStr(volume_units) THEN relative_volume(h).counts
    ELSE absolute_volume(h, Num(LookupRx), abs_volume_units).counts

\* C7: volume_constraint at a dose above the last bin edge (in the units of
\* the lookup) returns zero volume in volume_units; dose_constraint at a
\* volume above the maximum of the looked-up counts returns zero dose in
\* dose_units.
C7_OutOfRange ==
    /\ (/\ op.name = "volume_constraint"
        /\ Gt(op.num, LookupBins(self, op.str)[Len(LookupBins(self, op.str))]))
           => ret.val = DVHValue(Num(0), self.volume_units)
    /\ (/\ op.name = "dose_constraint"
        /\ Gt(op.num, NpMax(LookupCounts(self, op.str))))
           => ret.val = DVHValue(Num(0), self.dose_units)

----------------------------------------------------------------------------
(* Shape and frame *)

StrictlyIncreasing(s) == \A i \in 1..(Len(s) - 1) : Lt(s[i], s[i + 1])

\* C8: every DVH made by from_data or from_dicom_dvh, and every DVH derived
\* from one by view and unit transforms, has bins[0] == 0, strictly
\* increasing bins and len(counts) == len(bins) - 1.
C8_Shape ==
    (self # NoObject /\ made \in {"from_data", "from_dicom_dvh"}) =>
        /\ EqNum(self.bins[1], Num(0))
        /\ StrictlyIncreasing(self.bins)
        /\ Shaped(self)


\* the fields of h that the transform `name` is not about are those of g
FrameKept(name, h, g) ==
    /\ g.rx_dose = h.rx_dose
    /\ g.name = h.name
    /\ name \in {"differential", "cumulative"} =>
          g.bins = h.bins /\ g.dose_units = h.dose_units
                          /\ g.volume_units = h.volume_units
    /\ name \in {"absolute_dose", "relative_dose"} =>
          g.counts = h.counts /\ g.dvh_type = h.dvh_type
                              /\ g.volume_units = h.volume_units
    /\ name \in {"absolute_volume", "relative_volume"} =>
          g.bins = h.bins /\ g.dvh_type = h.dvh_type
                          /\ g.dose_units = h.dose_units

\* C9: no transform, conversion or query, whether it returns or raises,
\* changes a field of the DVH it is called on; and the DVH a transform
\* returns differs from it only in the fields the transform is about, rx_dose
\* and name always carried through.
C9_Frame ==
    [][(Ready /\ ret'.tag # "None") =>
           /\ self' = self
           /\ IsDVH(ret') => FrameKept(op'.name, self, ret'.val)]_vars

\* a differential DVH with a prescription dose got its volumes made relative,
\* through the cumulative view and back
C9_Witness ==
    /\ ReturnedDVH("relative_volume")
    /\ self.dvh_type = "differential"
    /\ self.rx_dose = Num(50)
    /\ ret.val.counts # self.counts
    /\ ret.val.volume_units = relative_units
    /\ ret.val.dvh_type = "differential"
    /\ ret.val.rx_dose = Num(50)

----------------------------------------------------------------------------
(* Derived scalars *)

\* the lower edge of the bin whose upper edge DVH.min returns
MinBinLower(h) ==
    LET d == differential(h)
        i == CHOOSE i \in 1..Len(d.counts) :
                 /\ Gt(d.counts[i], Num(0))
                 /\ \A j \in 1..(i - 1) : ~Gt(d.counts[j], Num(0))
    IN  d.bins[i]

\* mean was called on a DVH with a positive differential count (min and max
\* exist)
ScalarsDefined ==
    /\ op.name = "mean"
    /\ ret.tag = "number"
    /\ min(self).tag = "number"
    /\ max(self).tag = "number"

\* the differential counts are not negative and the bin edges ascend
WellFormed ==
    /\ Ascending(self.bins)
    /\ \A i \in 1..Len(differential(self).counts) :
           Ge(differential(self).counts[i], Num(0))

\* C10 as stated: for every DVH with a positive differential count,
\* min <= mean <= max.
C10_MinMeanMax ==
    ScalarsDefined =>
        Le(min(self).val, ret.val) /\ Le(ret.val, max(self).val)

\* C10 as amended: for every DVH with ascending bin edges and non-negative
\* differential counts, one of them positive, min <= max and mean <= max, and
\* mean is at least the lower edge of the bin whose upper edge is min (min
\* itself can exceed mean).
C10_MeanMax ==
    (ScalarsDefined /\ WellFormed) =>
        /\ Le(min(self).val, max(self).val)
        /\ Le(ret.val, max(self).val)
        /\ Le(MinBinLower(self), ret.val)

\* a DVH with volume in more than one bin: min < mean < max
C10_Witness ==
    /\ ScalarsDefined
    /\ WellFormed
    /\ Lt(min(self).val, ret.val)
    /\ Lt(ret.val, max(self).val)

====
